---- MODULE Spec2Model ----
(***************************************************************************)
(* Model of the Notion tree-to-text flattener                               *)
(* (notion/content_extractor.py, NotionContentExtractor).                   *)
(*                                                                         *)
(* Python strings are modelled as sequences of tokens.  A token is either   *)
(* one whitespace character (" ", "\t", "\n") or an atom: a run of          *)
(* characters that starts and ends with a non-whitespace character and      *)
(* holds no line break, so strip() and split("\n") act on token sequences   *)
(* exactly as they act on the characters.                                   *)
(***************************************************************************)
EXTENDS Integers, Sequences, FiniteSets, TLC

(***************************************************************************)
(* Bounds of the exploration.                                               *)
(***************************************************************************)
\* The largest number of blocks in an upstream tree.
MaxBlocks == 4

\* The largest number of runs in a rich text handed to _gather_links.
MaxRuns == 3

\* The largest number of pages the upstream holds for one node.
MaxPages == 3

\* The number of blocks the upstream returns per page.  The code asks for
\* page_size = 100 (line 75); the model pages earlier so that a node with a
\* few children already has a second page.
PageSize == 2

\* Calls of fetch_pages_from_database in one behaviour.
MaxCalls == 2

(***************************************************************************)
(* String layer.                                                            *)
(***************************************************************************)
Whitespace == {" ", "\t", "\n"}

\* Python's None where a string is expected (dict.get without default).
None == <<"None">>

\* str.lstrip() and str.rstrip()
LStrip(s) ==
    LET keep == {i \in 1..Len(s) : s[i] \notin Whitespace}
    IN  IF keep = {} THEN <<>>
        ELSE SubSeq(s, CHOOSE i \in keep : \A j \in keep : i <= j, Len(s))

RStrip(s) ==
    LET keep == {i \in 1..Len(s) : s[i] \notin Whitespace}
    IN  IF keep = {} THEN <<>>
        ELSE SubSeq(s, 1, CHOOSE i \in keep : \A j \in keep : j <= i)

\* str.strip()
strip(s) == RStrip(LStrip(s))

\* str.split("\n") on the tokens lo..hi of s, from the lines of the two
\* halves: the last line of the first half continues in the second half.
RECURSIVE SplitRange(_, _, _)
SplitRange(s, lo, hi) ==
    IF lo > hi THEN << <<>> >>
    ELSE IF lo = hi
         THEN IF s[lo] = "\n" THEN << <<>>, <<>> >> ELSE << <<s[lo]>> >>
    ELSE LET mid == (lo + hi) \div 2
             left == SplitRange(s, lo, mid)
             right == SplitRange(s, mid + 1, hi)
         IN  SubSeq(left, 1, Len(left) - 1)
             \o << left[Len(left)] \o right[1] >>
             \o Tail(right)

\* str.split("\n"): the lines of s; the empty string has one empty line.
split(s) == SplitRange(s, 1, Len(s))

\* sep.join(items), joining the two halves of the list.
RECURSIVE JoinRange(_, _, _, _)
JoinRange(sep, items, lo, hi) ==
    IF lo > hi THEN <<>>
    ELSE IF lo = hi THEN items[lo]
    ELSE LET mid == (lo + hi) \div 2
         IN  JoinRange(sep, items, lo, mid) \o sep
             \o JoinRange(sep, items, mid + 1, hi)

join(sep, items) == JoinRange(sep, items, 1, Len(items))

\* "\n".join(prefix + ln for ln in lines)
JoinPrefixed(prefix, lines) ==
    join(<<"\n">>, [k \in 1..Len(lines) |-> prefix \o lines[k]])

\* The indentation unit of the toggle branch: four spaces.
ToggleIndent == <<" ", " ", " ", " ">>

\* The indentation unit of the generic nested-content branch: one tab.
NestedIndent == <<"\t">>

\* str.replace("-", "")
RemoveDashes(s) == SelectSeq(s, LAMBDA c : c # "-")

\* Order-preserving de-duplication:
\*   seen = set(); [x for x in child_urls if not (x in seen or seen.add(x))]
RECURSIVE UniqueFrom(_, _)
UniqueFrom(xs, seen) ==
    IF xs = <<>> THEN <<>>
    ELSE IF Head(xs) \in seen THEN UniqueFrom(Tail(xs), seen)
    ELSE <<Head(xs)>> \o UniqueFrom(Tail(xs), seen \cup {Head(xs)})

\* The link list returned as accumulated, without de-duplication.
Unique_keep(xs) == xs

Unique(xs) == UniqueFrom(xs, {})

(***************************************************************************)
(* Rich text.                                                               *)
(* A run is [plain_text, href, ann_url]; href = None models a null or       *)
(* absent "href", ann_url = None models annotations without a "url" key.    *)
(***************************************************************************)
Falsy(s) == s = None \/ s = <<>>

\* _standardize_url
_standardize_url(url) ==
    IF url # <<>> /\ url[Len(url)] = "/" THEN url ELSE url \o <<"/">>

\* _extract_text
RECURSIVE _extract_text(_)
_extract_text(text_elements) ==
    IF text_elements = <<>> THEN <<>>
    ELSE LET element == Head(text_elements)
             piece == IF ~Falsy(element.href)
                      THEN <<"[">> \o element.plain_text \o <<"](">>
                           \o element.href \o <<")">>
                      ELSE element.plain_text
         IN  piece \o _extract_text(Tail(text_elements))

\* _gather_links with the two tests in the other order: the annotation-level
\* URL is taken before the hyperlink.
RECURSIVE _gather_links_annotation_first(_)
_gather_links_annotation_first(text_elements) ==
    IF text_elements = <<>> THEN <<>>
    ELSE LET element == Head(text_elements)
             link == IF element.ann_url # None THEN element.ann_url
                     ELSE IF ~Falsy(element.href) THEN element.href
                     ELSE None
             here == IF ~Falsy(link) THEN <<_standardize_url(link)>> ELSE <<>>
         IN  here \o _gather_links_annotation_first(Tail(text_elements))

\* _gather_links
RECURSIVE _gather_links(_)
_gather_links(text_elements) ==
    IF text_elements = <<>> THEN <<>>
    ELSE LET element == Head(text_elements)
             link == IF ~Falsy(element.href) THEN element.href
                     ELSE IF element.ann_url # None THEN element.ann_url
                     ELSE None
             here == IF ~Falsy(link) THEN <<_standardize_url(link)>> ELSE <<>>
         IN  here \o _gather_links(Tail(text_elements))

(***************************************************************************)
(* Blocks and the upstream tree.                                            *)
(* A block is a record                                                      *)
(*   id           its position in the upstream tree (the root page is 0)    *)
(*   parent       the node whose child list holds it                        *)
(*   type         element["type"]                                           *)
(*   has_children element["has_children"] (FALSE also models an absent key) *)
(*   payload      whether the key element[type] is present                  *)
(*   rich_text    payload["rich_text"] / payload["caption"] for images      *)
(*   external     payload["external"]["url"], None when absent              *)
(*   file         payload["file"]["url"], None when absent                  *)
(*   url          payload["url"], None when absent                          *)
(*   icon         "absent", "null", "emoji", "emoji_novalue", "external"    *)
(*   emoji        payload["icon"]["emoji"]                                  *)
(*   rows         table: the rows, each a sequence of cells' rich text;     *)
(*                table_row: one row, the cells' rich text                  *)
(*   title        payload["title"], None when absent                        *)
(***************************************************************************)
Nm == <<"1", "2", "3", "4", "5", "6", "7", "8", "9">>

\* The id string of a node, with the "-" separators of a Notion UUID.
IdStr(i) == IF i = 0 THEN <<"page", "-", "0">> ELSE <<"blk", "-", Nm[i]>>

\* The children of a node, in upstream order.
Children(blks, node) == SelectSeq(blks, LAMBDA b : b.parent = node)

(***************************************************************************)
(* The Fetcher: _retrieve_page_elements.                                    *)
(* The upstream answers a request with a page                               *)
(*   [ok, results, has_more, next_cursor];                                  *)
(* ok = FALSE is a request that raises (transport error, raise_for_status). *)
(* A cursor is the number of the page it designates; 0 is None.             *)
(***************************************************************************)
\* The upstream's answer to a request with the given start_cursor.
Respond(pages, cursor) == pages[IF cursor # 0 THEN cursor ELSE 1]

\* State of the loop before the first iteration (lines 69-71).
LoopInit ==
    [all_blocks |-> <<>>, has_more |-> TRUE, next_cursor |-> 0,
     requests |-> <<>>, returned |-> FALSE, failed |-> FALSE, ret |-> <<>>]

\* The loop with an error handler that returns what was accumulated.
LoopStep_keep(pages, st) ==
    IF ~st.has_more
    THEN [st EXCEPT !.returned = TRUE, !.ret = st.all_blocks]
    ELSE LET params == IF st.next_cursor # 0 THEN st.next_cursor ELSE 0
             data == Respond(pages, params)
         IN  IF ~data.ok
             THEN [st EXCEPT !.requests = Append(@, params),
                             !.returned = TRUE, !.failed = TRUE,
                             !.ret = st.all_blocks]
             ELSE [st EXCEPT !.requests = Append(@, params),
                             !.all_blocks = @ \o data.results,
                             !.has_more = data.has_more,
                             !.next_cursor = data.next_cursor]

\* The loop with a body that stops after the first page.
LoopStep_onepage(pages, st) ==
    IF ~st.has_more
    THEN [st EXCEPT !.returned = TRUE, !.ret = st.all_blocks]
    ELSE LET params == IF st.next_cursor # 0 THEN st.next_cursor ELSE 0
             data == Respond(pages, params)
         IN  IF ~data.ok
             THEN [st EXCEPT !.requests = Append(@, params),
                             !.returned = TRUE, !.failed = TRUE, !.ret = <<>>]
             ELSE [st EXCEPT !.requests = Append(@, params),
                             !.all_blocks = @ \o data.results,
                             !.has_more = FALSE,
                             !.next_cursor = data.next_cursor]

\* One evaluation of `while has_more:` and of its body (lines 73-101).
LoopStep(pages, st) ==
    IF ~st.has_more
    THEN [st EXCEPT !.returned = TRUE, !.ret = st.all_blocks]
    ELSE LET params == IF st.next_cursor # 0 THEN st.next_cursor ELSE 0
             data == Respond(pages, params)
         IN  IF ~data.ok
             THEN [st EXCEPT !.requests = Append(@, params),
                             !.returned = TRUE, !.failed = TRUE, !.ret = <<>>]
             ELSE [st EXCEPT !.requests = Append(@, params),
                             !.all_blocks = @ \o data.results,
                             !.has_more = data.has_more,
                             !.next_cursor = data.next_cursor]

RECURSIVE RunLoop(_, _)
RunLoop(pages, st) ==
    IF st.returned THEN st ELSE RunLoop(pages, LoopStep(pages, st))

\* The pages the upstream holds for a list of blocks.
RECURSIVE Paginate(_, _, _)
Paginate(items, size, k) ==
    IF Len(items) <= size
    THEN <<[ok |-> TRUE, results |-> items, has_more |-> FALSE, next_cursor |-> 0]>>
    ELSE <<[ok |-> TRUE, results |-> SubSeq(items, 1, size),
            has_more |-> TRUE, next_cursor |-> k + 1]>>
         \o Paginate(SubSeq(items, size + 1, Len(items)), size, k + 1)

\* An upstream is [blocks, fault]: the tree, and the request that fails,
\* [node, page]: the request for the given page of the children of the given
\* node raises (NoFault when every request succeeds).
NoFault == [node |-> -1, page |-> 0]

PagesOf(up, node) ==
    LET pages == Paginate(Children(up.blocks, node), PageSize, 1)
    IN  [k \in 1..Len(pages) |->
            IF up.fault = [node |-> node, page |-> k]
            THEN [pages[k] EXCEPT !.ok = FALSE]
            ELSE pages[k]]

_retrieve_page_elements(up, page_id) == RunLoop(PagesOf(up, page_id), LoopInit).ret

(***************************************************************************)
(* The Flattener: _process_elements.                                        *)
(* A result is [raised, content, child_urls, calls]: whether an exception   *)
(* left the call, the text, the links, and the Fetcher calls in call order,  *)
(* each [id, depth]: the node id handed to _retrieve_page_elements and the  *)
(* depth counter of the frame that made the call.                           *)
(***************************************************************************)
Ok(content, child_urls, calls) ==
    [raised |-> FALSE, content |-> content, child_urls |-> child_urls, calls |-> calls]

Call(id, depth) == [id |-> id, depth |-> depth]

\* An exception that leaves the call after the given Fetcher calls.
Raised(calls) ==
    [raised |-> TRUE, content |-> <<>>, child_urls |-> <<>>, calls |-> calls]

\* Types whose branch reads element[element_type] (KeyError when absent).
NeedsPayload ==
    {"heading_1", "heading_2", "heading_3", "paragraph", "quote",
     "bulleted_list_item", "numbered_list_item", "toggle", "to_do", "pdf",
     "code", "embed", "image", "table_row", "table", "child_database", "callout"}

\* "| " + " | ".join(cells) + " |\n"
TableLine(cells) ==
    <<"|", " ">> \o join(<<" ", "|", " ">>, cells) \o <<" ", "|", "\n">>

RECURSIVE TableLines(_)
TableLines(rows) ==
    IF rows = <<>> THEN <<>>
    ELSE TableLine([i \in 1..Len(rows[1]) |-> _extract_text(rows[1][i])])
         \o TableLines(Tail(rows))

\* The code fence of the code branch (three backquotes), as one atom.
Fence == "<fence>"

\* A child_page depth cap one level further down.
ChildPageDepth_four == 3 + 1

\* The depth below which a child_page is expanded (line 230).
ChildPageDepth == 3

\* The heading branch (lines 125-128).
HeadingBranch(element) ==
    Ok(<<"#", " ">> \o _extract_text(element.rich_text) \o <<"\n", "\n">>,
       _gather_links(element.rich_text), <<>>)

\* The image branch with the URL added to the links, as the pdf branch does.
ImageBranch_linked(element) ==
    LET image_url == IF ~Falsy(element.external) THEN element.external
                     ELSE IF element.file = None THEN <<"No URL">>
                     ELSE element.file
        caption == _extract_text(element.rich_text)
    IN  Ok(<<"![">> \o (IF caption # <<>> THEN caption ELSE <<"Image">>)
             \o <<"](">> \o image_url \o <<")", "\n">>, <<image_url>>, <<>>)

\* The image branch (lines 172-179).
ImageBranch(element) ==
    LET image_url == IF ~Falsy(element.external) THEN element.external
                     ELSE IF element.file = None THEN <<"No URL">>
                     ELSE element.file
        caption == _extract_text(element.rich_text)
    IN  Ok(<<"![">> \o (IF caption # <<>> THEN caption ELSE <<"Image">>)
             \o <<"](">> \o image_url \o <<")", "\n">>, <<>>, <<>>)

\* The table branch without the separator line.
TableBranch_noseparator(element) ==
    LET rows == element.rows
    IN  IF rows # <<>>
        THEN Ok(TableLines(rows) \o <<"\n">>, <<>>, <<>>)
        ELSE Ok(<<"\n">>, <<>>, <<>>)

\* The table branch (lines 194-203).
TableBranch(element) ==
    LET rows == element.rows
    IN  IF rows # <<>>
        THEN Ok(TableLines(<<rows[1]>>)
                \o TableLine([i \in 1..Len(rows[1]) |-> <<"---">>])
                \o TableLines(Tail(rows)) \o <<"\n">>, <<>>, <<>>)
        ELSE Ok(<<"\n">>, <<>>, <<>>)

\* The last branch with a placeholder line for the block.
UnsupportedBranch_placeholder(element) ==
    Ok(<<"[Unsupported]", "\n">>, <<>>, <<>>)

\* The branch of the unsupported or unknown types (lines 265-266).
UnsupportedBranch(element) ==
    Ok(<<>>, <<>>, <<>>)

RECURSIVE _process_elements(_, _, _)
RECURSIVE ProcessFrom(_, _, _, _)

\* The type dispatch of one loop iteration (lines 125-266); sub is the
\* recursive result the branch would obtain for the element's children at
\* depth + 1, and same the one at the same depth.
TypeBranch(up, element, depth) ==
    LET element_type == element.type
        element_id == element.id
        text == _extract_text(element.rich_text)
        links == _gather_links(element.rich_text)
        deeper == _process_elements(up, _retrieve_page_elements(up, element_id), depth + 1)
        same == _process_elements(up, _retrieve_page_elements(up, element_id), depth)
    IN
    IF element_type \in NeedsPayload /\ ~element.payload THEN Raised(<<>>)
    ELSE CASE element_type \in {"heading_1", "heading_2", "heading_3"} ->
                HeadingBranch(element)
           [] element_type \in {"paragraph", "quote"} ->
                Ok(text \o <<"\n">>, links, <<>>)
           [] element_type \in {"bulleted_list_item", "numbered_list_item", "toggle"} ->
                LET marker == IF element_type # "numbered_list_item" THEN "-" ELSE "1."
                    line == <<marker, " ">> \o text \o <<"\n">>
                IN  IF element_type = "toggle" /\ element.has_children
                    THEN IF deeper.raised THEN Raised(<<Call(element_id, depth)>> \o deeper.calls)
                         ELSE Ok(line \o <<"\n">>
                                      \o JoinPrefixed(ToggleIndent, split(deeper.content))
                                      \o <<"\n">>,
                                 links \o deeper.child_urls,
                                 <<Call(element_id, depth)>> \o deeper.calls)
                    ELSE Ok(line, links, <<>>)
           [] element_type = "to_do" ->
                Ok(<<"[]", " ">> \o text \o <<"\n">>, links, <<>>)
           [] element_type = "pdf" ->
                LET url == IF ~Falsy(element.external) THEN element.external
                           ELSE element.file
                IN  Ok(<<"[PDF](">> \o url \o <<")", "\n">>, <<url>>, <<>>)
           [] element_type = "code" ->
                Ok(<<Fence, "\n">> \o text \o <<"\n", Fence, "\n">>, links, <<>>)
           [] element_type = "embed" ->
                LET url == IF element.url = None THEN <<>> ELSE element.url
                IN  Ok(<<"[Embed](">> \o url \o <<")", "\n">>, <<url>>, <<>>)
           [] element_type = "image" ->
                ImageBranch(element)
           [] element_type = "link_preview" ->
                LET url == IF ~element.payload \/ element.url = None THEN <<>>
                           ELSE element.url
                IN  Ok(<<"[Link](">> \o url \o <<")", "\n">>,
                       <<_standardize_url(url)>>, <<>>)
           [] element_type = "table_row" ->
                LET cells == IF element.rows = <<>> THEN <<>> ELSE element.rows[1]
                IN  Ok(TableLines(<<cells>>), <<>>, <<>>)
           [] element_type = "table" ->
                TableBranch(element)
           [] element_type \in {"column_list", "column"} ->
                IF element.has_children
                THEN IF same.raised THEN Raised(<<Call(element_id, depth)>> \o same.calls)
                     ELSE Ok(same.content \o <<"\n">>, same.child_urls,
                             <<Call(element_id, depth)>> \o same.calls)
                ELSE Ok(<<>>, <<>>, <<>>)
           [] element_type = "child_database" ->
                LET title == IF element.title = None THEN <<>> ELSE element.title
                IN  Ok(<<"**Database:**", " ">> \o title \o <<"\n">>, <<>>, <<>>)
           [] element_type = "divider" ->
                Ok(<<"---", "\n", "\n">>, <<>>, <<>>)
           [] element_type = "child_page" /\ depth < ChildPageDepth ->
                LET child_title == IF ~element.payload \/ element.title = None
                                   THEN <<"Untitled">> ELSE element.title
                    child_page_url == <<"https://www.notion.so/">>
                                      \o RemoveDashes(IdStr(element_id))
                IN  IF deeper.raised THEN Raised(<<Call(element_id, depth)>> \o deeper.calls)
                    ELSE Ok(<<"\n", "\n", "<subpage>", "\n", "#", " ">> \o child_title
                            \o <<"\n", "\n">> \o deeper.content
                            \o <<"\n", "</subpage>", "\n", "\n">>,
                            <<child_page_url>> \o deeper.child_urls,
                            <<Call(element_id, depth)>> \o deeper.calls)
           [] element_type = "synced_block" ->
                IF element.has_children
                THEN IF deeper.raised THEN Raised(<<Call(element_id, depth)>> \o deeper.calls)
                     ELSE Ok(<<"[Synced block start]", "\n">> \o deeper.content
                             \o <<"\n", "[Synced block end]", "\n", "\n">>,
                             deeper.child_urls, <<Call(element_id, depth)>> \o deeper.calls)
                ELSE Ok(<<"[Synced block start]", "\n">>, <<>>, <<>>)
           [] element_type = "callout" ->
                IF element.icon = "null" \/ element.icon = "emoji_novalue"
                THEN Raised(<<>>)
                ELSE LET prefix == IF element.icon = "emoji"
                                   THEN element.emoji \o <<" ">> ELSE <<>>
                     IN  Ok(<<">", " ">> \o prefix \o text \o <<"\n", "\n">>, <<>>, <<>>)
           [] OTHER -> UnsupportedBranch(element)

\* The nested-content test without its child_page exclusion.
NestedContentApplies_any(element) ==
    element.has_children

\* Whether the nested-content step runs for the element (lines 269-273).
NestedContentApplies(element) ==
    element.type # "child_page" /\ element.has_children

\* The nested-content step under the depth cap of the child_page branch.
NestedContent_capped(up, element, depth) ==
    IF NestedContentApplies(element) /\ depth < ChildPageDepth
    THEN LET nested == _process_elements(up, _retrieve_page_elements(up, element.id),
                                         depth + 1)
         IN  IF nested.raised THEN Raised(<<Call(element.id, depth)>> \o nested.calls)
             ELSE Ok(JoinPrefixed(NestedIndent, split(nested.content)) \o <<"\n", "\n">>,
                     nested.child_urls, <<Call(element.id, depth)>> \o nested.calls)
    ELSE Ok(<<>>, <<>>, <<>>)

\* The nested-content step of one loop iteration (lines 268-280).
NestedContent(up, element, depth) ==
    IF NestedContentApplies(element)
    THEN LET nested == _process_elements(up, _retrieve_page_elements(up, element.id),
                                         depth + 1)
         IN  IF nested.raised THEN Raised(<<Call(element.id, depth)>> \o nested.calls)
             ELSE Ok(JoinPrefixed(NestedIndent, split(nested.content)) \o <<"\n", "\n">>,
                     nested.child_urls, <<Call(element.id, depth)>> \o nested.calls)
    ELSE Ok(<<>>, <<>>, <<>>)

\* The iteration with `content = ...` in place of `content += ...`.
ProcessElement_overwrite(up, element, depth, acc) ==
    LET branch == TypeBranch(up, element, depth)
    IN  IF branch.raised THEN Raised(acc.calls \o branch.calls)
        ELSE LET nested == NestedContent(up, element, depth)
             IN  IF nested.raised
                 THEN Raised(acc.calls \o branch.calls \o nested.calls)
                 ELSE Ok(branch.content \o nested.content,
                         acc.child_urls \o branch.child_urls \o nested.child_urls,
                         acc.calls \o branch.calls \o nested.calls)

\* One iteration of `for element in elements` (lines 121-280) on the
\* accumulators content, child_urls and the Fetcher calls made so far.
ProcessElement(up, element, depth, acc) ==
    LET branch == TypeBranch(up, element, depth)
    IN  IF branch.raised THEN Raised(acc.calls \o branch.calls)
        ELSE LET nested == NestedContent(up, element, depth)
             IN  IF nested.raised
                 THEN Raised(acc.calls \o branch.calls \o nested.calls)
                 ELSE Ok(acc.content \o branch.content \o nested.content,
                         acc.child_urls \o branch.child_urls \o nested.child_urls,
                         acc.calls \o branch.calls \o nested.calls)

ProcessFrom(up, elements, depth, acc) ==
    IF elements = <<>> \/ acc.raised THEN acc
    ELSE ProcessFrom(up, Tail(elements), depth,
                     ProcessElement(up, Head(elements), depth, acc))

_process_elements(up, elements, depth) ==
    LET acc == ProcessFrom(up, elements, depth, Ok(<<>>, <<>>, <<>>))
    IN  IF acc.raised THEN acc
        ELSE Ok(strip(acc.content), Unique(acc.child_urls), acc.calls)

(***************************************************************************)
(* Documents (models/document.py, domain/documents/notion.py).              *)
(* A Python value held in a properties dict is [py, value]: the name of its *)
(* type and, for a str or a dict, what it holds.  A dict is a function from *)
(* its keys; keyword arguments are a function from the argument names.      *)
(***************************************************************************)
PyNone == [py |-> "NoneType"]

PyStr(s) == [py |-> "str", value |-> s]

PyDict(d) == [py |-> "dict", value |-> d]

\* dict without the key: what dict.pop(key, None) leaves behind.
Without(d, key) == [k \in (DOMAIN d) \ {key} |-> d[k]]

\* bool(value) for the values above.
Truthy(v) ==
    CASE v.py = "NoneType" -> FALSE
      [] v.py = "str" -> v.value # <<>>
      [] v.py = "dict" -> DOMAIN v.value # {}

\* The fields DocumentMetadata requires.
MetadataFields == {"id", "title", "properties", "page_link"}

\* NotionDocumentMetadata(**kwargs): the model, with has_images defaulting
\* to False and keyword arguments that name no field dropped.
NotionDocumentMetadata(kwargs) ==
    [id |-> kwargs["id"], title |-> kwargs["title"],
     properties |-> kwargs["properties"], page_link |-> kwargs["page_link"],
     has_images |-> IF "has_images" \in DOMAIN kwargs THEN kwargs["has_images"]
                    ELSE FALSE]

\* Whether NotionDocumentMetadata(**v) raises: v is not a mapping
\* (TypeError) or lacks a required field (ValidationError).
MetadataRaises(v) ==
    v.py # "dict" \/ ~(MetadataFields \subseteq DOMAIN v.value)

\* NotionDocument(**kwargs): a Document has the fields id, metadata,
\* content, parent_metadata (default None) and child_urls (default []); a
\* keyword argument that names no field is dropped.
NotionDocument(kwargs) ==
    [id |-> kwargs["id"], metadata |-> kwargs["metadata"],
     content |-> kwargs["content"],
     parent_metadata |-> IF "parent_metadata" \in DOMAIN kwargs
                         THEN kwargs["parent_metadata"] ELSE PyNone,
     child_urls |-> IF "child_urls" \in DOMAIN kwargs
                    THEN kwargs["child_urls"] ELSE <<>>]

(***************************************************************************)
(* The upstream trees of the exploration.                                   *)
(***************************************************************************)
U1 == <<"https://a">>
U2 == <<"https://b", "/">>

\* The plain text of the block with the given id: one atom per block.
Tx == <<"t1", "t2", "t3", "t4", "t5", "t6", "t7", "t8", "t9">>

Run(plain_text, href, ann_url) ==
    [plain_text |-> plain_text, href |-> href, ann_url |-> ann_url]

\* The rich text of a table cell that holds one word.
Cell(word) == <<Run(<<word>>, None, None)>>

Blank ==
    [id |-> 0, parent |-> 0, type |-> "unsupported_widget", has_children |-> FALSE,
     payload |-> TRUE, rich_text |-> <<>>, external |-> None, file |-> None,
     url |-> None, icon |-> "absent", emoji |-> <<>>, rows |-> <<>>,
     title |-> None]

\* The block of kind k placed at position i under parent p.
Block(k, i, p) ==
    LET base == [Blank EXCEPT !.id = i, !.parent = p]
        plain == <<Run(<<Tx[i]>>, None, None)>>
        linked(u) == <<Run(<<Tx[i]>>, u, None)>>
    IN  CASE k = "paragraph_link" ->
               [base EXCEPT !.type = "paragraph", !.rich_text = linked(U1)]
          [] k = "paragraph_ann" ->
               [base EXCEPT !.type = "paragraph",
                            !.rich_text = <<Run(<<Tx[i]>>, None, U2)>>]
          [] k = "paragraph_parent" ->
               [base EXCEPT !.type = "paragraph", !.rich_text = plain,
                            !.has_children = TRUE]
          [] k = "toggle_parent" ->
               [base EXCEPT !.type = "toggle", !.rich_text = linked(U2),
                            !.has_children = TRUE]
          [] k = "child_page" ->
               [base EXCEPT !.type = "child_page", !.title = <<Tx[i]>>]
          [] k = "child_page_parent" ->
               [base EXCEPT !.type = "child_page", !.title = <<Tx[i]>>,
                            !.has_children = TRUE]
          [] k = "synced_block_parent" ->
               [base EXCEPT !.type = "synced_block", !.has_children = TRUE]
          [] k = "column_list_parent" ->
               [base EXCEPT !.type = "column_list", !.has_children = TRUE]
          [] k = "column_parent" ->
               [base EXCEPT !.type = "column", !.has_children = TRUE]
          [] k = "callout_link" ->
               [base EXCEPT !.type = "callout", !.rich_text = linked(U2),
                            !.icon = "emoji", !.emoji = <<"!">>]
          [] k = "callout_null_icon" ->
               [base EXCEPT !.type = "callout", !.rich_text = plain, !.icon = "null"]
          [] k = "heading_no_payload" ->
               [base EXCEPT !.type = "heading_1", !.payload = FALSE]
          [] k = "pdf_no_url" ->
               [base EXCEPT !.type = "pdf"]
          [] k = "pdf" ->
               [base EXCEPT !.type = "pdf", !.external = U2]
          [] k = "unsupported_parent" ->
               [base EXCEPT !.has_children = TRUE]
          [] k = "unsupported_widget" ->
               [base EXCEPT !.rich_text = linked(U2)]
          [] k = "heading_1" ->
               [base EXCEPT !.type = "heading_1", !.rich_text = linked(U1)]
          [] k = "heading_2" ->
               [base EXCEPT !.type = "heading_2", !.rich_text = plain]
          [] k = "heading_3" ->
               [base EXCEPT !.type = "heading_3", !.rich_text = plain]
          [] k = "toggle" ->
               [base EXCEPT !.type = "toggle", !.rich_text = plain]
          [] k = "callout_parent" ->
               [base EXCEPT !.type = "callout", !.rich_text = plain,
                            !.has_children = TRUE]
          [] k = "table_empty" ->
               [base EXCEPT !.type = "table"]
          [] k = "table_header" ->
               [base EXCEPT !.type = "table",
                            !.rows = << <<plain, Cell("A")>> >>]
          [] k = "table_2x2" ->
               [base EXCEPT !.type = "table",
                            !.rows = << <<Cell("A"), Cell("B")>>,
                                        <<plain, Cell("2")>> >>]
          [] k = "table_ragged" ->
               [base EXCEPT !.type = "table",
                            !.rows = << <<plain, Cell("A"), Cell("B")>>,
                                        <<linked(U2)>>,
                                        <<Cell("1"), Cell("2"), Cell("3"), plain>> >>]
          [] k = "image_both" ->
               [base EXCEPT !.type = "image", !.external = <<"https://e">>,
                            !.file = <<"https://f">>]
          [] k = "image_file" ->
               [base EXCEPT !.type = "image", !.file = <<"https://f">>,
                            !.rich_text = linked(U2)]
          [] k = "image_none" ->
               [base EXCEPT !.type = "image", !.external = <<>>,
                            !.rich_text = plain]

\* The metadata of the database a page belongs to, as
\* _transform_page_metadata stores it under "parent" (page_extractor.py,
\* lines 113-119).
DatabaseMetadata ==
    PyDict([id |-> <<"db">>, title |-> <<>>, properties |-> <<>>,
            page_link |-> <<>>])

\* The properties of a page: a select column and the database it is in.
PlainProperties ==
    [k \in {"Status", "parent"} |->
        IF k = "Status" THEN PyStr(<<"Done">>) ELSE DatabaseMetadata]

\* The same with a "Parent" entry that holds the metadata of a parent page.
ParentMetadata ==
    PyDict([id |-> <<"page", "-", "9">>, title |-> <<"Up">>,
            properties |-> <<>>, page_link |-> <<"https://www.notion.so/page9">>])

ParentProperties ==
    [k \in {"Status", "parent", "Parent"} |->
        IF k = "Parent" THEN ParentMetadata ELSE PlainProperties[k]]

\* The same with a select column named "Parent", as _extract_properties
\* stores it (page_extractor.py, lines 137-138).
ParentSelectProperties ==
    [k \in {"Status", "parent", "Parent"} |->
        IF k = "Parent" THEN PyStr(<<"Projects">>) ELSE PlainProperties[k]]

\* The same with a "Parent" column without a value.
ParentNoneProperties ==
    [k \in {"Status", "parent", "Parent"} |->
        IF k = "Parent" THEN PyNone ELSE PlainProperties[k]]

\* The metadata of the page (id 0 is the page's node) with the given
\* properties.
PageMetadata(properties) ==
    [id |-> 0, title |-> <<"Page">>, properties |-> properties,
     page_link |-> <<"https://www.notion.so/page0">>, has_images |-> FALSE]

\* A workspace is the set of block kinds its pages are built from, the
\* properties its pages may carry, and whether requests to it may fail.
Workspaces ==
    { [kinds |-> {"paragraph_link", "paragraph_parent", "toggle_parent",
                  "child_page", "child_page_parent"},
       properties |-> {PlainProperties}, unreliable |-> FALSE],
      [kinds |-> {"paragraph_link", "column_list_parent", "column_parent",
                  "synced_block_parent", "child_page_parent"},
       properties |-> {PlainProperties}, unreliable |-> FALSE],
      [kinds |-> {"paragraph_link", "callout_link", "pdf", "toggle_parent",
                  "unsupported_parent"},
       properties |-> {PlainProperties}, unreliable |-> FALSE],
      [kinds |-> {"paragraph_link", "callout_null_icon", "heading_no_payload",
                  "pdf_no_url", "toggle_parent"},
       properties |-> {PlainProperties}, unreliable |-> FALSE],
      [kinds |-> {"paragraph_link", "toggle_parent", "child_page_parent"},
       properties |-> {PlainProperties}, unreliable |-> TRUE],
      [kinds |-> {"heading_1", "heading_2", "heading_3", "unsupported_widget",
                  "paragraph_link"},
       properties |-> {PlainProperties}, unreliable |-> FALSE],
      [kinds |-> {"table_empty", "table_header", "table_2x2", "table_ragged",
                  "paragraph_link"},
       properties |-> {PlainProperties}, unreliable |-> FALSE],
      [kinds |-> {"image_both", "image_file", "image_none", "paragraph_ann",
                  "toggle_parent"},
       properties |-> {PlainProperties}, unreliable |-> FALSE],
      [kinds |-> {"callout_parent", "paragraph_link", "toggle"},
       properties |-> {PlainProperties}, unreliable |-> FALSE],
      [kinds |-> {"paragraph_link", "paragraph_ann", "callout_null_icon"},
       properties |-> {ParentProperties, ParentSelectProperties,
                       ParentNoneProperties},
       unreliable |-> FALSE] }

VARIABLES
    workspace,  \* the workspace the page lives in
    metadata,   \* the metadata object handed to extract_content
    blocks,     \* the upstream tree under the page, in document order
    out,        \* the outcome of extract_content
    pages,      \* the pages the upstream holds for one node
    loop,       \* the local variables of one _retrieve_page_elements call
    text_elements,  \* the rich text handed to _gather_links
    links,      \* what _gather_links returned for it
    timestamp_file, \* the last-run file of the NotionPageFetcher
    clock,      \* how many fetch_pages_from_database calls were made
    call        \* the outcome of the last fetch_pages_from_database call

vars == <<workspace, metadata, blocks, out, pages, loop, text_elements, links,
          timestamp_file, clock, call>>

\* The state of the page fetcher.
fetcher_vars == <<timestamp_file, clock, call>>

\* No last-run file (Path.exists() is False), and a file with a text.
NoFile == [exists |-> FALSE]

File(text) == [exists |-> TRUE, text |-> text]

\* No fetch_pages_from_database call was made.
NoCall == [path |-> "not called"]

\* A page fetcher that is not used: no file, no call.
FetcherIdle ==
    /\ timestamp_file = NoFile
    /\ clock = 0
    /\ call = NoCall

\* The outcome of an extraction that has not run.
NotRun == [state |-> "idle"]

\* The result of a _gather_links call that has not been made.
NotCalled == <<"not called">>

\* The nodes under which the upstream accepts a new last block: the root
\* page, or a node on the path from the root to the last block that holds
\* children (the page, or a block that declares has_children).
RECURSIVE Ancestors(_, _)
Ancestors(blks, i) ==
    IF i = 0 THEN {0} ELSE {i} \cup Ancestors(blks, blks[i].parent)

CanHold(blks, p) ==
    IF p = 0 THEN TRUE ELSE blks[p].has_children

\* The requests that can fail in a tree.
Faults(blks) ==
    { [node |-> n, page |-> k] :
        n \in 0..Len(blks), k \in 1..(Len(blks) \div PageSize + 1) }

\* No document: extract_content raised.
NoDocument == [py |-> "raised"]

\* Lines 37-48 of extract_content on the metadata object md, once the
\* flattening has given the result r after the extraction's Fetcher calls.
\* The outcome is
\*   raised     whether _process_elements raised
\*   content, page_link   the locals of lines 34-35
\*   calls      the Fetcher calls made
\*   metadata   the object md after the call
\*   document   the NotionDocument returned, NoDocument when the call raised
BuildDocument(fault, md, r) ==
    LET popped == IF "Parent" \in DOMAIN md.properties
                  THEN md.properties["Parent"] ELSE PyNone
        after == [md EXCEPT !.properties = Without(@, "Parent")]
    IN  [state |-> "done", fault |-> fault, raised |-> r.raised,
         content |-> r.content, page_link |-> r.child_urls,
         calls |-> <<Call(md.id, 0)>> \o r.calls,
         metadata |-> IF r.raised THEN md ELSE after,
         document |->
            IF r.raised \/ (Truthy(popped) /\ MetadataRaises(popped))
            THEN NoDocument
            ELSE NotionDocument(
                    [id |-> md.id, metadata |-> after,
                     parent_metadata |-> IF Truthy(popped)
                                         THEN NotionDocumentMetadata(popped.value)
                                         ELSE popped,
                     content |-> r.content, page_link |-> r.child_urls])]

\* extract_content (lines 24-48): the root fetch, the flattening of its
\* result at depth 0, and the document.
extract_content(up, md) ==
    BuildDocument(up.fault, md,
                  _process_elements(up, _retrieve_page_elements(up, md.id), 0))

Init ==
    /\ workspace \in Workspaces
    /\ metadata \in {PageMetadata(p) : p \in workspace.properties}
    /\ blocks = <<>>
    /\ out = NotRun
    /\ pages = <<>>
    /\ loop = LoopInit
    /\ text_elements = <<>>
    /\ links = NotCalled
    /\ FetcherIdle

\* The upstream gains one block.
AddBlock ==
    /\ out = NotRun
    /\ Len(blocks) < MaxBlocks
    /\ \E k \in workspace.kinds :
       \E p \in Ancestors(blocks, Len(blocks)) :
          /\ CanHold(blocks, p)
          /\ blocks' = Append(blocks, Block(k, Len(blocks) + 1, p))
    /\ UNCHANGED <<workspace, metadata, out, pages, loop, text_elements, links>>
    /\ UNCHANGED fetcher_vars

\* One run of extract_content on the page; in an unreliable workspace one
\* request may fail.
ExtractContent ==
    /\ out = NotRun
    /\ \E f \in {NoFault} \cup (IF workspace.unreliable THEN Faults(blocks) ELSE {}) :
          /\ f # NoFault =>
               f.page <= Len(Paginate(Children(blocks, f.node), PageSize, 1))
          /\ out' = extract_content([blocks |-> blocks, fault |-> f], metadata)
    /\ metadata' = out'.metadata
    /\ UNCHANGED <<workspace, blocks, pages, loop, text_elements, links>>
    /\ UNCHANGED fetcher_vars

Next == AddBlock \/ ExtractContent

Spec == Init /\ [][Next]_vars

(***************************************************************************)
(* The paging loop of _retrieve_page_elements, one iteration per step, on   *)
(* an upstream that holds up to MaxPages pages for the node.  The results   *)
(* of page k are the items <<k, 1>>, <<k, 2>>, ...; a page that is not the  *)
(* last one reports has_more with the cursor of the next page, the last one *)
(* reports has_more = false and a null cursor; at most one request fails.   *)
(***************************************************************************)
UpstreamPages(lens, failAt) ==
    [k \in 1..Len(lens) |->
        [ok |-> k # failAt,
         results |-> [j \in 1..lens[k] |-> <<k, j>>],
         has_more |-> k < Len(lens),
         next_cursor |-> IF k < Len(lens) THEN k + 1 ELSE 0]]

InitFetch ==
    /\ workspace = [kinds |-> {}, properties |-> {PlainProperties},
                    unreliable |-> TRUE]
    /\ metadata = PageMetadata(PlainProperties)
    /\ blocks = <<>>
    /\ out = NotRun
    /\ \E n \in 1..MaxPages :
       \E lens \in [1..n -> 0..PageSize] :
       \E failAt \in 0..n :
          pages = UpstreamPages(lens, failAt)
    /\ loop = LoopInit
    /\ text_elements = <<>>
    /\ links = NotCalled
    /\ FetcherIdle

\* `while has_more:` holds: one request, and what follows it.
FetchPage ==
    /\ ~loop.returned
    /\ loop.has_more
    /\ loop' = LoopStep(pages, loop)
    /\ UNCHANGED <<workspace, metadata, blocks, out, pages, text_elements, links>>
    /\ UNCHANGED fetcher_vars

\* `while has_more:` fails: return all_blocks.
ReturnBlocks ==
    /\ ~loop.returned
    /\ ~loop.has_more
    /\ loop' = LoopStep(pages, loop)
    /\ UNCHANGED <<workspace, metadata, blocks, out, pages, text_elements, links>>
    /\ UNCHANGED fetcher_vars

NextFetch == FetchPage \/ ReturnBlocks

FetchSpec == InitFetch /\ [][NextFetch]_vars

\* The loop is synchronous code and every request carries timeout = 10
\* (line 79): an iteration that can run does run.
FairFetchSpec == FetchSpec /\ WF_vars(NextFetch)

(***************************************************************************)
(* _gather_links on the rich texts of up to MaxRuns runs.                   *)
(***************************************************************************)
UX == <<"https://x">>
UY == <<"https://y">>

\* The runs a rich text is made of: without link, with a hyperlink (that
\* ends with "/" or not), with an annotation-level URL, with both, with an
\* empty hyperlink, with an empty annotation-level URL.
Runs ==
    { Run(<<"w">>, None, None),
      Run(<<"w">>, UX, None),
      Run(<<"w">>, UX \o <<"/">>, None),
      Run(<<"w">>, None, UY),
      Run(<<"w">>, UX, UY),
      Run(<<"w">>, <<>>, UY \o <<"/">>),
      Run(<<"w">>, None, <<>>) }

InitHarvest ==
    /\ workspace = [kinds |-> {}, properties |-> {PlainProperties},
                    unreliable |-> FALSE]
    /\ metadata = PageMetadata(PlainProperties)
    /\ blocks = <<>>
    /\ out = NotRun
    /\ pages = <<>>
    /\ loop = LoopInit
    /\ text_elements = <<>>
    /\ links = NotCalled
    /\ FetcherIdle

\* The rich text gains one run.
AddRun ==
    /\ links = NotCalled
    /\ Len(text_elements) < MaxRuns
    /\ \E run \in Runs : text_elements' = Append(text_elements, run)
    /\ UNCHANGED <<workspace, metadata, blocks, out, pages, loop, links>>
    /\ UNCHANGED fetcher_vars

\* One call of _gather_links.
GatherLinks ==
    /\ links = NotCalled
    /\ links' = _gather_links(text_elements)
    /\ UNCHANGED <<workspace, metadata, blocks, out, pages, loop, text_elements>>
    /\ UNCHANGED fetcher_vars

NextHarvest == AddRun \/ GatherLinks

HarvestSpec == InitHarvest /\ [][NextHarvest]_vars

(***************************************************************************)
(* NotionPageFetcher.fetch_pages_from_database (page_extractor.py), over    *)
(* up to MaxCalls calls on one last-run file.  A JSON text is a sequence of *)
(* tokens: the punctuation, one atom per key and one atom per value.        *)
(***************************************************************************)
\* The instants of the calls, as isoformat() prints their date and time.
Moments ==
    <<"2025-01-01T08:00:00", "2025-01-02T08:00:00", "2025-01-03T08:00:00",
      "2025-01-04T08:00:00", "2025-01-05T08:00:00", "2025-01-06T08:00:00">>

UtcOffset == "+00:00"

\* datetime.now(timezone.utc).isoformat() at the n-th instant.
IsoNow(n) == <<Moments[n], UtcOffset>>

\* since.replace("Z", "+00:00")
ReplaceZ(text) ==
    [k \in 1..Len(text) |-> IF text[k] = "Z" THEN UtcOffset ELSE text[k]]

\* Whether datetime.fromisoformat(text) raises ValueError: it accepts a date
\* and time, alone or followed by a UTC offset, and nothing around them.
FromIsoFormatRaises(text) ==
    LET moments == {Moments[n] : n \in 1..Len(Moments)}
    IN  ~ \/ Len(text) = 1 /\ text[1] \in moments
          \/ Len(text) = 2 /\ text[1] \in moments /\ text[2] = UtcOffset

PyList == [py |-> "list"]

JSONDecodeError == [py |-> "JSONDecodeError"]

\* json.loads(text) for an empty object, an object with one member, and an
\* empty array, with any whitespace between the tokens; any other text
\* raises JSONDecodeError.
json_loads(text) ==
    LET t == SelectSeq(text, LAMBDA c : c \notin Whitespace)
    IN  IF t = <<"{", "}">> THEN PyDict(<<>>)
        ELSE IF t = <<"[", "]">> THEN PyList
        ELSE IF /\ Len(t) = 5
                /\ t[1] = "{" /\ t[3] = ":" /\ t[5] = "}"
                /\ {t[2], t[4]} \cap {"{", "}", "[", "]", ":"} = {}
        THEN PyDict([k \in {t[2]} |-> [json |-> t[4]]])
        ELSE JSONDecodeError

\* The dict d after d[key] = v.
WithItem(d, key, v) ==
    [k \in (DOMAIN d) \cup {key} |-> IF k = key THEN v ELSE d[k]]

\* Lines 53-67: the time filter on `since`, alone or and-ed to the filter
\* of the caller.
WithTimeFilter(filter_body, since) ==
    LET time_filter == [timestamp |-> "last_edited_time",
                        last_edited_time |-> [after |-> since]]
    IN  IF "filter" \in DOMAIN filter_body
        THEN WithItem(filter_body, "filter",
                      [and |-> <<filter_body["filter"], time_filter>>])
        ELSE WithItem(filter_body, "filter", time_filter)

\* One entry of _extract_properties (lines 134-166) for the property types
\* title, rich_text and select; [raised |-> TRUE] when the entry raises
\* (a select without a value is null, and None has no get).
ExtractProperty(value) ==
    CASE value.type = "select" ->
           IF value.select = PyNone THEN [raised |-> TRUE, value |-> PyNone]
           ELSE [raised |-> FALSE, value |-> PyStr(value.select.value.name)]
      [] value.type = "title" ->
           [raised |-> FALSE,
            value |-> PyStr(join(<<"\n">>, [k \in 1..Len(value.title) |->
                                               value.title[k].plain_text]))]
      [] value.type = "rich_text" ->
           [raised |-> FALSE,
            value |-> PyStr(join(<<" ">>, [k \in 1..Len(value.rich_text) |->
                                              value.rich_text[k].plain_text]))]
      [] OTHER -> [raised |-> FALSE, value |-> [py |-> "raw"]]

\* _extract_properties
_extract_properties(properties) ==
    LET entries == [key \in DOMAIN properties |-> ExtractProperty(properties[key])]
    IN  [raised |-> \E key \in DOMAIN entries : entries[key].raised,
         value |-> [key \in DOMAIN entries |-> entries[key].value]]

\* _transform_page_metadata (lines 103-126): the metadata of a page, or
\* the exception it raises: AttributeError from _extract_properties,
\* KeyError from properties.pop("Name").
_transform_page_metadata(page) ==
    LET extracted == _extract_properties(page.properties)
        properties == extracted.value
        parent == PyDict([id |-> page.parent.database_id, title |-> <<>>,
                          properties |-> <<>>, page_link |-> <<>>])
    IN  IF extracted.raised THEN [raised |-> "AttributeError"]
        ELSE IF "Name" \notin DOMAIN properties THEN [raised |-> "KeyError"]
        ELSE [raised |-> "",
              metadata |-> NotionDocumentMetadata(
                  [id |-> page.id, title |-> properties["Name"].value,
                   properties |-> WithItem(Without(properties, "Name"),
                                           "parent", parent),
                   page_link |-> page.url])]

\* The list comprehension of line 101: the metadata of the pages, up to the
\* first page whose transformation raises.
RECURSIVE TransformPages(_)
TransformPages(pp) ==
    IF pp = <<>> THEN [raised |-> "", ret |-> <<>>]
    ELSE LET first == _transform_page_metadata(Head(pp))
         IN  IF first.raised # "" THEN [raised |-> first.raised, ret |-> <<>>]
             ELSE LET rest == TransformPages(Tail(pp))
                  IN  [raised |-> rest.raised,
                       ret |-> IF rest.raised # "" THEN <<>>
                               ELSE <<first.metadata>> \o rest.ret]

\* No request was sent, and the request with the given JSON body.
NoRequest == [sent |-> FALSE]

Request(body) == [sent |-> TRUE, json |-> body]

\* How a call ends: the branch it left through, the exception it raised
\* ("" when it returned), the list it returned, the request it sent and the
\* last-run file it leaves.
Outcome(path, raised, ret, request, file) ==
    [path |-> path, raised |-> raised, ret |-> ret, request |-> request,
     timestamp_file |-> file]

\* Lines 75-101 of fetch_pages_from_database once the request body is
\* built: the request (status 0 stands for a request that got no
\* response), the last-run file, the transformation of the pages.
QueryAndStamp(file, now, writable, filter_body, response) ==
    LET request == Request(filter_body)
        written == IF writable THEN File(now) ELSE file
    IN  IF response.status # 200
        THEN Outcome("request error", "", <<>>, request, file)
        ELSE IF response.body.py # "dict"
        THEN Outcome("response error", "", <<>>, request, file)
        ELSE LET pp == IF "results" \in DOMAIN response.body.value
                       THEN response.body.value["results"] ELSE <<>>
                 transformed == TransformPages(pp)
             IN  IF transformed.raised # ""
                 THEN Outcome("transform error", transformed.raised, <<>>,
                              request, written)
                 ELSE Outcome("ok", "", transformed.ret, request, written)

\* fetch_pages_from_database(database_id, filter_params, since) on the
\* last-run file, at the instant `now`, with the upstream answering
\* `response`; writable is whether write_text succeeds.
fetch_pages_from_database(file, now, writable, filter_params, since, response) ==
    LET stored == IF since = None /\ file.exists THEN strip(file.text) ELSE since
        parsed == IF ~Falsy(filter_params) /\ strip(filter_params) # <<>>
                  THEN json_loads(filter_params) ELSE PyDict(<<>>)
    IN  IF parsed = JSONDecodeError
        THEN Outcome("invalid filter", "ValueError", <<>>, NoRequest, file)
        ELSE IF Falsy(stored)
        THEN QueryAndStamp(file, now, writable, parsed, response)
        ELSE IF FromIsoFormatRaises(ReplaceZ(stored)) \/ parsed.py # "dict"
        THEN Outcome("invalid since", "", <<>>, NoRequest, file)
        ELSE QueryAndStamp(file, now, writable,
                           PyDict(WithTimeFilter(parsed.value, stored)), response)

\* The pages of the database: one whose title column is named Name, one
\* whose title column was renamed, one whose select column has no value.
Title(word) == [type |-> "title", title |-> <<[plain_text |-> <<word>>]>>]

Select(name) == [type |-> "select", select |-> PyDict([name |-> <<name>>])]

DatabasePage(id, properties) ==
    [id |-> id, url |-> <<"https://www.notion.so/page0">>,
     parent |-> [database_id |-> <<"db">>], properties |-> properties]

NamedPage ==
    DatabasePage(0, [k \in {"Name", "Status"} |->
                        IF k = "Name" THEN Title("Page") ELSE Select("Done")])

RenamedTitlePage ==
    DatabasePage(1, [k \in {"Title", "Status"} |->
                        IF k = "Title" THEN Title("Page") ELSE Select("Done")])

UnsetSelectPage ==
    DatabasePage(2, [k \in {"Name", "Status"} |->
                        IF k = "Name" THEN Title("Page")
                        ELSE [type |-> "select", select |-> PyNone]])

\* What the upstream answers: no response, an error status, a body that is
\* not JSON, a JSON array, an object without results, and results.
Responses ==
    { [status |-> 0, body |-> [py |-> "none"]],
      [status |-> 400, body |-> PyDict([k \in {"object"} |-> <<>>])],
      [status |-> 200, body |-> [py |-> "text"]],
      [status |-> 200, body |-> PyList],
      [status |-> 200, body |-> PyDict([k \in {"object"} |-> <<>>])] }
    \cup { [status |-> 200, body |-> PyDict([k \in {"results"} |-> pp])] :
             pp \in { <<NamedPage>>, <<NamedPage, RenamedTitlePage>>,
                      <<UnsetSelectPage>> } }

\* The filter_params of a call: none, blank, an empty object, a filter, a
\* truncated text, an array.
FilterParams ==
    { None, <<" ">>, <<"{", "}">>,
      <<"{", "filter", ":", " ", "status=Done", "}", "\n">>,
      <<"{", "filter", ":">>,
      <<"[", "]">> }

\* The since of a call: none, empty, a UTC instant, a text that is no
\* instant.
Sinces ==
    { None, <<>>, <<Moments[1], "Z">>, <<"yesterday">> }

\* The last-run file before the first call: absent, empty, left by an
\* earlier run (with or without a final newline), or holding another text.
InitFetcher ==
    /\ workspace = [kinds |-> {}, properties |-> {PlainProperties},
                    unreliable |-> TRUE]
    /\ metadata = PageMetadata(PlainProperties)
    /\ blocks = <<>>
    /\ out = NotRun
    /\ pages = <<>>
    /\ loop = LoopInit
    /\ text_elements = <<>>
    /\ links = NotCalled
    /\ timestamp_file \in { NoFile, File(<<>>), File(IsoNow(1)),
                            File(IsoNow(1) \o <<"\n">>), File(<<"last", " ", "week">>) }
    /\ clock = 0
    /\ call = NoCall

\* One call of fetch_pages_from_database.
FetchPagesFromDatabase ==
    /\ clock < MaxCalls
    /\ \E filter_params \in FilterParams, since \in Sinces,
          response \in Responses, writable \in BOOLEAN :
          LET r == fetch_pages_from_database(timestamp_file, IsoNow(clock + 2),
                                             writable, filter_params, since, response)
          IN  /\ timestamp_file' = r.timestamp_file
              /\ call' = [status |-> response.status, body |-> response.body.py,
                          path |-> r.path, raised |-> r.raised, ret |-> r.ret,
                          request |-> r.request]
    /\ clock' = clock + 1
    /\ UNCHANGED <<workspace, metadata, blocks, out, pages, loop, text_elements, links>>

NextFetcher == FetchPagesFromDatabase

FetcherSpec == InitFetcher /\ [][NextFetcher]_vars

(***************************************************************************)
(* Properties of _gather_links.                                             *)
(***************************************************************************)
\* The run carries a hyperlink / an annotation-level URL.
HasHref(run) == run.href # None /\ run.href # <<>>

HasAnnotationUrl(run) == run.ann_url # None /\ run.ann_url # <<>>

\* The positions of the runs that carry a URL, and the position of the
\* k-th of them.
Carriers == {j \in 1..Len(text_elements) :
                HasHref(text_elements[j]) \/ HasAnnotationUrl(text_elements[j])}

Carrier(k) == CHOOSE j \in Carriers : Cardinality({i \in Carriers : i < j}) = k - 1

EndsWithSlash(url) == url # <<>> /\ url[Len(url)] = "/"

\* C12: _gather_links returns, in run order and with duplicates retained,
\* one URL for each run that carries a hyperlink or an annotation-level URL
\* and none for the other runs; it is the hyperlink when the run carries
\* both; every URL returned ends with "/", being the run's URL itself when
\* that ends with "/" and the run's URL followed by "/" otherwise.
C12_LinksHarvestedInOrder ==
    links # NotCalled =>
       /\ Len(links) = Cardinality(Carriers)
       /\ \A k \in 1..Len(links) :
             LET run == text_elements[Carrier(k)]
                 url == IF HasHref(run) THEN run.href ELSE run.ann_url
             IN  /\ EndsWithSlash(links[k])
                 /\ links[k] = IF EndsWithSlash(url) THEN url ELSE url \o <<"/">>

\* A rich text with a run that carries both a hyperlink and an
\* annotation-level URL has been harvested, and one URL came out twice.
C12_Witness ==
    /\ links # NotCalled
    /\ \E j \in 1..Len(text_elements) :
          HasHref(text_elements[j]) /\ HasAnnotationUrl(text_elements[j])
    /\ \E i, j \in 1..Len(links) : i < j /\ links[i] = links[j]
    /\ Len(links) < Len(text_elements)

(***************************************************************************)
(* Properties of extract_content.                                           *)
(***************************************************************************)
Done == out.state = "done"

Returned == Done /\ ~out.raised

\* The upstream the extraction ran against.
Up == [blocks |-> blocks, fault |-> out.fault]

\* The node ids of the Fetcher calls, in call order.
CallIds == [j \in 1..Len(out.calls) |-> out.calls[j].id]

\* Number of occurrences of x in the sequence s.
Count(x, s) == Cardinality({j \in 1..Len(s) : s[j] = x})

\* The URL of a child page: its id without the "-" separators.
PageUrl(i) == <<"https://www.notion.so/">> \o RemoveDashes(IdStr(i))

\* Block i was handed to the loop of some _process_elements call: the
\* children of its parent were requested and the request did not fail.
Visited(i) ==
    /\ out.fault.node # blocks[i].parent
    /\ blocks[i].parent \in {CallIds[j] : j \in 1..Len(CallIds)}

\* C1: in one extraction no block is duplicated: the Fetcher is called at
\* most once per node id, and the text of no block appears twice in the
\* output.
C1_NoBlockDuplicated ==
    Done =>
      /\ \A i \in 0..Len(blocks) : Count(i, CallIds) <= 1
      /\ \A i \in 1..Len(blocks) : Count(Tx[i], out.content) <= 1

\* C2: a child_page met while the depth counter is 3 or more never triggers
\* a Fetcher call for its own children, whatever its has_children flag.
C2_ChildPageDepthBound ==
    Done =>
      \A j \in 1..Len(out.calls) :
         LET c == out.calls[j]
         IN  (c.id # 0 /\ blocks[c.id].type = "child_page") => c.depth < 3

\* A child_page that declares has_children has been met at depth 3, below a
\* parent whose children were fetched by a frame at depth 2.
C2_Witness ==
    /\ Returned
    /\ out.fault = NoFault
    /\ \E i \in 1..Len(blocks) :
          /\ blocks[i].type = "child_page"
          /\ blocks[i].has_children
          /\ blocks[i].parent # 0
          /\ blocks[blocks[i].parent].type \in {"child_page", "toggle", "paragraph"}
          /\ \E j \in 1..Len(out.calls) :
                out.calls[j] = Call(blocks[i].parent, 2)

\* C3: every child_page block that is visited, at any depth, contributes the
\* URL built from its id to the links.
C3_ChildPageAlwaysLinked ==
    Returned =>
      \A i \in 1..Len(blocks) :
         (blocks[i].type = "child_page" /\ Visited(i))
            => Count(PageUrl(i), out.page_link) >= 1

\* The URLs of the runs of a rich text that carry a hyperlink, normalized.
RunUrls(rich_text) ==
    { _standardize_url(rich_text[j].href) :
        j \in {j \in 1..Len(rich_text) : ~Falsy(rich_text[j].href)} }

\* The URLs the rendering of one block refers to, by block type.
RenderedUrls(b) ==
    CASE b.type \in {"heading_1", "heading_2", "heading_3", "paragraph", "quote",
                     "bulleted_list_item", "numbered_list_item", "toggle",
                     "to_do", "code", "callout"} ->
           RunUrls(b.rich_text)
      [] b.type \in {"table", "table_row"} ->
           UNION { RunUrls(b.rows[r][c]) :
                     <<r, c>> \in {<<r, c>> \in (1..Len(b.rows)) \X (1..9) :
                                      c <= Len(b.rows[r])} }
      [] b.type = "image" ->
           RunUrls(b.rich_text)
              \cup ({IF ~Falsy(b.external) THEN b.external ELSE b.file} \ {None})
      [] b.type = "pdf" ->
           {IF ~Falsy(b.external) THEN b.external ELSE b.file} \ {None}
      [] b.type = "embed" -> {b.url} \ {None}
      [] b.type = "link_preview" ->
           IF b.url = None THEN {} ELSE {_standardize_url(b.url)}
      [] b.type = "child_page" -> {PageUrl(b.id)}
      [] OTHER -> {}

\* C4: the links hold every URL that a rendered run, image, pdf, embed,
\* link preview or child-page reference of the tree carries (runs inside
\* callouts and table cells included), each exactly once.
C4_EveryUrlLinkedOnce ==
    Returned =>
      \A i \in 1..Len(blocks) :
         (Visited(i) /\ blocks[i].payload) =>
            \A u \in RenderedUrls(blocks[i]) : Count(u, out.page_link) = 1

\* The links met in document order: for each block its own links, then the
\* links of its children when the block is expanded; nothing is removed.
RECURSIVE DocLinks(_, _, _)
DocLinks(up, elements, depth) ==
    IF elements = <<>> THEN <<>>
    ELSE LET e == Head(elements)
             own == IF e.type = "child_page"
                    THEN IF depth < 3 THEN <<PageUrl(e.id)>> ELSE <<>>
                    ELSE TypeBranch(up, [e EXCEPT !.has_children = FALSE],
                                    depth).child_urls
             expands == IF e.type = "child_page" THEN depth < 3
                        ELSE e.has_children
             below == IF e.type \in {"column_list", "column"} THEN depth
                      ELSE depth + 1
         IN  own
             \o (IF expands
                 THEN DocLinks(up, _retrieve_page_elements(up, e.id), below)
                 ELSE <<>>)
             \o DocLinks(up, Tail(elements), depth)

\* C5: the returned links hold no entry twice and keep the first-encounter
\* order of the depth-first document traversal.
C5_LinksUniqueInOrder ==
    Returned =>
      /\ \A u \in {out.page_link[j] : j \in 1..Len(out.page_link)} :
            Count(u, out.page_link) = 1
      /\ out.page_link
           = UniqueFrom(DocLinks(Up, _retrieve_page_elements(Up, 0), 0), {})

\* Links of a nested level were merged into the parent's, and URLs met more
\* than once were returned once.
C5_Witness ==
    /\ Returned
    /\ \E i \in 1..Len(blocks) :
          blocks[i].parent # 0 /\ Visited(i) /\ RunUrls(blocks[i].rich_text) # {}
    /\ Len(out.page_link) >= 2
    /\ Len(DocLinks(Up, _retrieve_page_elements(Up, 0), 0)) >= Len(out.page_link) + 2

\* C6: extract_content never raises for a malformed block.
C6_NeverRaises ==
    Done => ~out.raised

\* The proper ancestors of block i.
ProperAncestors(i) == Ancestors(blocks, i) \ {0, i}

\* The tree without the descendants of node n.
Pruned(n) ==
    SelectSeq(blocks, LAMBDA b : n \notin (Ancestors(blocks, b.id) \ {b.id}))

\* C7: a failed page request, for the first page or for a later one, makes
\* _retrieve_page_elements return the empty list without raising; the
\* extraction is the one of the tree in which the node has no children, and
\* when the node is the root page the text and the links are empty.
C7_FetchFailureAbsorbed ==
    (Done /\ out.fault # NoFault) =>
      LET f == out.fault
          st == RunLoop(PagesOf(Up, f.node), LoopInit)
      IN  /\ st.returned /\ st.failed /\ st.ret = <<>>
          /\ out = [extract_content([blocks |-> Pruned(f.node), fault |-> NoFault],
                                    metadata)
                       EXCEPT !.fault = f]
          /\ f.node = 0 =>
                ~out.raised /\ out.content = <<>> /\ out.page_link = <<>>

\* The request for the second page of a node's children failed after the
\* first page had been received.
C7_Witness ==
    /\ Done
    /\ out.fault.page = 2
    /\ Count(out.fault.node, CallIds) >= 1
    /\ Len(Children(blocks, out.fault.node)) > PageSize

\* The depth of block i in the document: columns do not nest.
RECURSIVE TreeDepth(_)
TreeDepth(i) ==
    LET p == blocks[i].parent
    IN  IF p = 0 THEN 0
        ELSE IF blocks[p].type \in {"column_list", "column"} THEN TreeDepth(p)
        ELSE TreeDepth(p) + 1

\* No ancestor of block i is a child_page at depth 3 or more.
Reachable(i) ==
    \A a \in ProperAncestors(i) :
       ~(blocks[a].type = "child_page" /\ TreeDepth(a) >= 3)

\* Blocks whose rendering shows their text (or title).
ShowsText(i) ==
    \/ blocks[i].type \in {"paragraph", "toggle", "callout"}
    \/ blocks[i].type = "child_page" /\ TreeDepth(i) < 3

\* The position of the first occurrence of x in s.
FirstAt(x, s) == CHOOSE j \in 1..Len(s) : s[j] = x /\ \A k \in 1..(j - 1) : s[k] # x

\* C9: no block is lost: every block that shows text, reachable from the
\* root page other than through a child_page at depth 3 or more, has its
\* text in the output, and siblings appear in document order.
C9_NoBlockLost ==
    (Done /\ out.fault = NoFault) =>
      /\ \A i \in 1..Len(blocks) :
            (Reachable(i) /\ ShowsText(i)) => Count(Tx[i], out.content) >= 1
      /\ \A i, j \in 1..Len(blocks) :
            (/\ i < j
             /\ blocks[i].parent = blocks[j].parent
             /\ Reachable(i) /\ ShowsText(i) /\ ShowsText(j)
             /\ Count(Tx[i], out.content) >= 1
             /\ Count(Tx[j], out.content) >= 1)
               => FirstAt(Tx[i], out.content) < FirstAt(Tx[j], out.content)

\* The lines of s that hold the atom x.
LinesWith(x, s) ==
    SelectSeq(split(s), LAMBDA ln : Count(x, ln) >= 1)

\* C10: a toggle of the page whose children are plain blocks contributes
\* its marker line and, nested under it, the line of each child exactly
\* once, prefixed by one indentation unit.
C10_ToggleNestsChildrenOnce ==
    Returned =>
      \A i \in 1..Len(blocks) :
         (blocks[i].type = "toggle" /\ blocks[i].parent = 0 /\ blocks[i].has_children)
           => \A c \in 1..Len(blocks) :
                 (blocks[c].parent = i /\ blocks[c].type = "paragraph"
                    /\ ~blocks[c].has_children)
                   => LET line == _extract_text(blocks[c].rich_text)
                      IN  /\ Len(LinesWith(Tx[c], out.content)) = 1
                          /\ LinesWith(Tx[c], out.content)[1]
                                \in {ToggleIndent \o line, NestedIndent \o line}
                          /\ FirstAt(Tx[i], out.content) < FirstAt(Tx[c], out.content)

\* The page holds no container: no block declares has_children and none
\* is a child_page (hence every block is a child of the root page).
NoContainer ==
    \A i \in 1..Len(blocks) :
       ~blocks[i].has_children /\ blocks[i].type # "child_page"

\* The rendering of block i by the rule of its type alone.
OwnRendering(i) == TypeBranch(Up, blocks[i], 0)

\* The renderings of the blocks i..Len(blocks), concatenated in list order.
RECURSIVE Renderings(_)
Renderings(i) ==
    IF i > Len(blocks) THEN <<>>
    ELSE OwnRendering(i).content \o Renderings(i + 1)

RecognizedTypes ==
    NeedsPayload \cup {"link_preview", "column_list", "column", "divider",
                       "child_page", "synced_block"}

\* The blocks of unrecognized type that declare no children.
UnknownLeaves ==
    {i \in 1..Len(blocks) :
        blocks[i].type \notin RecognizedTypes /\ ~blocks[i].has_children}

\* What the flattening gave: the outcome without the document.
FlattenOf(o) ==
    [raised |-> o.raised, content |-> o.content, page_link |-> o.page_link,
     calls |-> o.calls]

\* C13: a block of unrecognized type produces no text and no links and
\* does not raise: the flattening of the page is the flattening of the page
\* without its childless blocks of unrecognized type, so that the siblings
\* before and after such a block are rendered as if it were absent.
C13_UnknownTypeSkipped ==
    (Done /\ out.fault = NoFault /\ UnknownLeaves # {}) =>
       /\ FlattenOf(out)
            = FlattenOf(extract_content(
                 [blocks |-> SelectSeq(blocks, LAMBDA b : b.id \notin UnknownLeaves),
                  fault |-> NoFault], metadata))
       /\ \A i \in UnknownLeaves : Count(Tx[i], out.content) = 0

\* A block of unrecognized type stands between two siblings that are
\* rendered.
C13_Witness ==
    /\ Returned
    /\ \E i \in UnknownLeaves :
          /\ i > 1 /\ i < Len(blocks)
          /\ blocks[i - 1].parent = blocks[i].parent
          /\ blocks[i + 1].parent = blocks[i].parent
          /\ Count(Tx[i - 1], out.content) = 1
          /\ Count(Tx[i + 1], out.content) = 1

\* A '|'-delimited line: "|", then each cell between spaces and closed by
\* "|".
RECURSIVE Delimited(_)
Delimited(texts) ==
    IF texts = <<>> THEN <<>>
    ELSE <<" ">> \o Head(texts) \o <<" ", "|">> \o Delimited(Tail(texts))

RowLine(texts) == <<"|">> \o Delimited(texts)

\* The lines a table with the given rows is to give: header, separator,
\* data rows.
ExpectedTable(rows) ==
    IF rows = <<>> THEN <<>>
    ELSE <<RowLine([c \in 1..Len(rows[1]) |-> _extract_text(rows[1][c])]),
           RowLine([c \in 1..Len(rows[1]) |-> <<"---">>])>>
         \o [r \in 1..(Len(rows) - 1) |->
               RowLine([c \in 1..Len(rows[r + 1]) |-> _extract_text(rows[r + 1][c])])]

\* The lines of the output that are table lines.
TableLinesOf(s) ==
    SelectSeq(split(s), LAMBDA ln : ln # <<>> /\ ln[1] = "|")

\* The expected lines of the tables i..Len(blocks) of the page, in order.
RECURSIVE ExpectedTablesFrom(_)
ExpectedTablesFrom(i) ==
    IF i > Len(blocks) THEN <<>>
    ELSE (IF blocks[i].type = "table" THEN ExpectedTable(blocks[i].rows) ELSE <<>>)
         \o ExpectedTablesFrom(i + 1)

\* C14: a table with n >= 1 rows renders exactly n + 1 lines: the first row
\* as '|'-delimited header, a separator with one '---' cell per header cell,
\* then one '|'-delimited line per remaining row, in row order; a table
\* without rows renders no row line.  On a page whose tables are children
\* of the root, the table lines of the text are the expected lines of its
\* tables, in order, and the lines of one table follow each other.
C14_TableRendering ==
    (Returned /\ out.fault = NoFault
       /\ (\E i \in 1..Len(blocks) : blocks[i].type = "table")
       /\ \A i \in 1..Len(blocks) :
             blocks[i].type = "table" => blocks[i].parent = 0 /\ ~blocks[i].has_children)
      => /\ TableLinesOf(out.content) = ExpectedTablesFrom(1)
         /\ \A i \in 1..Len(blocks) :
               (blocks[i].type = "table" /\ blocks[i].rows # <<>>) =>
                  LET lines == split(out.content)
                      want == ExpectedTable(blocks[i].rows)
                  IN  /\ Len(want) = Len(blocks[i].rows) + 1
                      /\ \E k \in 1..Len(lines) :
                            /\ k + Len(want) - 1 <= Len(lines)
                            /\ SubSeq(lines, k, k + Len(want) - 1) = want

\* A page with a table of two rows and one of three rows has been
\* flattened.
C14_Witness ==
    /\ Returned
    /\ \E i, j \in 1..Len(blocks) :
          /\ blocks[i].type = "table" /\ Len(blocks[i].rows) = 2
          /\ blocks[j].type = "table" /\ Len(blocks[j].rows) = 3
    /\ \E i \in 1..Len(blocks) : blocks[i].type = "table" /\ blocks[i].rows = <<>>
    /\ Len(TableLinesOf(out.content)) = 7

\* C15: extract_content leaves the metadata it is given unchanged: the
\* title, the page URL and every property (one named Parent included) are
\* after the call what they were before it, and the document returned
\* carries that same metadata.
C15_MetadataUnchanged ==
    [][(out = NotRun /\ out' # NotRun) =>
          /\ metadata' = metadata
          /\ out'.document # NoDocument => out'.document.metadata = metadata]_vars

\* C16: the document extract_content returns for a page carries both parts
\* of the flattening: its content is the flattened text and its child_urls
\* are the de-duplicated links (not empty when links were found).
C16_DocumentCarriesTextAndLinks ==
    (Done /\ out.document # NoDocument) =>
       /\ out.document.content = out.content
       /\ out.document.child_urls = out.page_link

\* The depth counters of the frames that met block i and fetched its
\* children.
FrameDepths(i) ==
    {out.calls[j].depth : j \in {j \in 1..Len(out.calls) : out.calls[j].id = i}}

\* C17: the children of a column_list or column are processed with the
\* depth value of the wrapper itself, never with depth + 1: a block inside a
\* wrapper (a child_page, say) is only ever met by a frame whose depth
\* counter is one at which the wrapper was met.
C17_ColumnsKeepDepth ==
    Done =>
      \A i \in 1..Len(blocks) :
         (blocks[i].parent # 0
            /\ blocks[blocks[i].parent].type \in {"column_list", "column"})
           => FrameDepths(i) \subseteq FrameDepths(blocks[i].parent)

\* C18: a callout is never recursed into: whatever its has_children flag,
\* no Fetcher call is made for the id of a callout, and the callout
\* contributes its block-quote line only (the text of no block under a
\* callout is in the output).
C18_CalloutNotExpanded ==
    Done =>
      \A i \in 1..Len(blocks) :
         blocks[i].type = "callout" =>
            /\ Count(i, CallIds) = 0
            /\ \A c \in 1..Len(blocks) :
                  blocks[c].parent = i => Count(Tx[c], out.content) = 0

\* The Markdown heading marker of a heading type.
HeadingMarker(type) ==
    CASE type = "heading_1" -> "#"
      [] type = "heading_2" -> "##"
      [] type = "heading_3" -> "###"

\* C19: a heading is rendered with the Markdown marker of its level ("#",
\* "##", "###"), then a space and its rich text, on a line of its own, so
\* that headings of different levels have different markers.
C19_HeadingMarkerMatchesLevel ==
    Returned =>
      \A i \in 1..Len(blocks) :
         (blocks[i].type \in {"heading_1", "heading_2", "heading_3"}
            /\ blocks[i].parent = 0)
           => LinesWith(Tx[i], out.content)
                = << <<HeadingMarker(blocks[i].type), " ">>
                       \o _extract_text(blocks[i].rich_text) >>

\* The image reference an image block is to give: the caption, or the word
\* Image when the caption is empty, and the URL, the external one when
\* there is one, else the file one.
ImageReference(b) ==
    LET caption == _extract_text(b.rich_text)
        url == IF b.external # None /\ b.external # <<>> THEN b.external
               ELSE IF b.file # None THEN b.file
               ELSE <<"No URL">>
    IN  <<"![">> \o (IF caption = <<>> THEN <<"Image">> ELSE caption)
          \o <<"](">> \o url \o <<")">>

\* The image references of the images among the root's children i.. , in
\* order.
RECURSIVE RootImagesFrom(_)
RootImagesFrom(i) ==
    IF i > Len(blocks) THEN <<>>
    ELSE (IF blocks[i].type = "image" /\ blocks[i].parent = 0
          THEN <<ImageReference(blocks[i])>> ELSE <<>>)
         \o RootImagesFrom(i + 1)

\* C20: an image renders as an image reference and adds nothing to the
\* links: the unindented image lines of the text are the references of the
\* root's images, in order, and the links of the page are those of the page
\* without its image blocks.
C20_ImageAddsNoLink ==
    (Returned /\ out.fault = NoFault
       /\ (\E i \in 1..Len(blocks) : blocks[i].type = "image")
       /\ \A i \in 1..Len(blocks) : blocks[i].type = "image" => ~blocks[i].has_children)
      => /\ SelectSeq(split(out.content), LAMBDA ln : ln # <<>> /\ ln[1] = "![")
              = RootImagesFrom(1)
         /\ LET without == extract_content(
                   [blocks |-> SelectSeq(blocks, LAMBDA b : b.type # "image"),
                    fault |-> NoFault], metadata)
            IN  ~without.raised /\ out.page_link = without.page_link

\* A page with an image that has an external and a file URL, and with an
\* image whose caption holds a hyperlink, has been flattened, and its
\* links are not empty.
C20_Witness ==
    /\ Returned
    /\ \E i \in 1..Len(blocks) :
          /\ blocks[i].type = "image"
          /\ blocks[i].external # None /\ blocks[i].file # None
    /\ \E i \in 1..Len(blocks) :
          /\ blocks[i].type = "image"
          /\ RunUrls(blocks[i].rich_text) # {}
          /\ blocks[i].parent # 0
    /\ out.page_link # <<>>

\* Two to the power n.
RECURSIVE Pow2(_)
Pow2(n) == IF n = 0 THEN 1 ELSE 2 * Pow2(n - 1)

\* Block i is a container other than a child_page.
OtherContainer(i) ==
    blocks[i].type # "child_page" /\ blocks[i].has_children

\* C21: the flattening of a finite tree ends after finitely many Fetcher
\* calls (every call is for the page or for a block of the tree, and there
\* are fewer than 2^(n+1) of them for n blocks), and every container other
\* than a child_page that a frame meets has its children fetched, whatever
\* the depth counter of the frame: a block that is met, reports
\* has_children and is not expanded is a child_page.
C21_OtherContainersExpandedAtAnyDepth ==
    Done =>
      /\ \A j \in 1..Len(out.calls) : out.calls[j].id \in 0..Len(blocks)
      /\ Len(out.calls) < Pow2(Len(blocks) + 1)
      /\ Returned =>
            \A i \in 1..Len(blocks) :
               /\ (Visited(i) /\ OtherContainer(i)) => Count(i, CallIds) >= 1
               /\ (Visited(i) /\ blocks[i].has_children /\ Count(i, CallIds) = 0)
                     => blocks[i].type = "child_page"

\* A paragraph that reports children has been met by a frame whose depth
\* counter is 3, under three nested containers, and its children were
\* fetched by that frame.
C21_Witness ==
    /\ Returned
    /\ out.fault = NoFault
    /\ \E i \in 1..Len(blocks) :
          /\ blocks[i].type = "paragraph"
          /\ blocks[i].has_children
          /\ Cardinality(ProperAncestors(i)) = 3
          /\ FrameDepths(i) = {3}

\* The positions of the opening and of the closing subpage tags in a text.
Opens(s) == {k \in 1..Len(s) : s[k] = "<subpage>"}

Closes(s) == {k \in 1..Len(s) : s[k] = "</subpage>"}

\* How many subpage wrappers are open once the opening tag at k is read.
NestingAt(s, k) ==
    Cardinality({o \in Opens(s) : o <= k}) - Cardinality({c \in Closes(s) : c < k})

\* The subpage tags of a text are matched: no closing tag comes before its
\* opening tag and none is missing.
TagsMatched(s) ==
    /\ Cardinality(Opens(s)) = Cardinality(Closes(s))
    /\ \A c \in Closes(s) :
          Cardinality({o \in Opens(s) : o < c}) >= Cardinality({d \in Closes(s) : d <= c})

\* The child pages on the path from the page to block i that were expanded.
ExpandedPagesAbove(i) ==
    {a \in Ancestors(blocks, i) \ {0} :
       blocks[a].type = "child_page" /\ Count(a, CallIds) >= 1}

\* C22: in an extraction, started at depth 0, a child_page is expanded only
\* by a frame whose depth counter is 0, 1 or 2; the children of an expanded
\* child_page are processed one level deeper than the child_page, and no
\* block is processed at a lower depth than its parent; on every path from
\* the page at most three child pages are expanded; in the text the subpage
\* wrappers nest at most three deep, every opening tag has its closing tag,
\* and the title and the fetched paragraphs of an expanded child_page stand
\* between an opening and a later closing tag.
C22_SubpagesNestAtMostThreeDeep ==
    (Done /\ \E i \in 1..Len(blocks) : blocks[i].type = "child_page") =>
      /\ \A i \in 1..Len(blocks) :
            /\ blocks[i].type = "child_page" => FrameDepths(i) \subseteq {0, 1, 2}
            /\ blocks[i].parent # 0 =>
                  LET p == blocks[i].parent
                  IN  /\ \A d \in FrameDepths(i) :
                            \E e \in FrameDepths(p) : e <= d /\ d <= e + 1
                      /\ blocks[p].type = "child_page" =>
                            FrameDepths(i) \subseteq {e + 1 : e \in FrameDepths(p)}
            /\ Cardinality(ExpandedPagesAbove(i)) <= 3
      /\ Returned =>
            LET s == out.content
            IN  /\ TagsMatched(s)
                /\ \A k \in Opens(s) : NestingAt(s, k) <= 3
                /\ \A i \in 1..Len(blocks) :
                      (blocks[i].type = "child_page" /\ Count(i, CallIds) >= 1) =>
                         \E k \in Opens(s), c \in Closes(s) :
                            /\ k < c
                            /\ blocks[i].title # None =>
                                  \E t \in (k + 1)..(c - 1) : <<s[t]>> = blocks[i].title
                            /\ \A j \in 1..Len(blocks) :
                                  (blocks[j].parent = i /\ blocks[j].type = "paragraph"
                                     /\ Visited(j)) =>
                                     \E t \in (k + 1)..(c - 1) : s[t] = Tx[j]

\* Four child pages that report children are nested in one another: the
\* first three were expanded by frames at depth 0, 1 and 2, the fourth was
\* met at depth 3 and not expanded, and the wrappers of the text nest
\* three deep.
C22_Witness ==
    /\ Returned
    /\ out.fault = NoFault
    /\ Len(blocks) = 4
    /\ \A i \in 1..4 :
          /\ blocks[i].type = "child_page"
          /\ blocks[i].has_children
          /\ blocks[i].parent = i - 1
    /\ \A i \in 1..3 : FrameDepths(i) = {i - 1}
    /\ FrameDepths(4) = {}
    /\ \E k \in Opens(out.content) : NestingAt(out.content, k) = 3

(***************************************************************************)
(* Properties of fetch_pages_from_database.                                 *)
(***************************************************************************)
\* The call failed: it raised, or it returned the empty list through one of
\* its error branches.
RunFailed(c) == c.raised # "" \/ c.path # "ok"

\* The database query of the call succeeded: the request was sent and
\* answered with status 200 and a JSON object.
QuerySucceeded(c) ==
    c.request.sent /\ c.status = 200 /\ c.body = "dict"

\* C23: over any sequence of fetch_pages_from_database calls, the last-run
\* file is written only by a call whose database query succeeded, and a
\* call that failed leaves the file as it was: a failed run never advances
\* the instant from which the next run asks for pages.
C23_FailedRunKeepsWatermark ==
    [][clock' # clock =>
          /\ timestamp_file' # timestamp_file => QuerySucceeded(call')
          /\ RunFailed(call') => timestamp_file' = timestamp_file]_vars

(***************************************************************************)
(* Properties of the paging loop.                                           *)
(***************************************************************************)
\* The page a request with the given cursor designates.
PageOf(cursor) == IF cursor # 0 THEN cursor ELSE 1

RECURSIVE AllResults(_)
AllResults(pp) ==
    IF pp = <<>> THEN <<>> ELSE Head(pp).results \o AllResults(Tail(pp))

PagingInOrder ==
    LET req == loop.requests
    IN  /\ req # <<>> => req[1] = 0
        /\ \A i \in 1..(Len(req) - 1) :
              /\ pages[PageOf(req[i])].has_more
              /\ req[i + 1] = pages[PageOf(req[i])].next_cursor
        /\ \A i, j \in 1..Len(req) : i # j => PageOf(req[i]) # PageOf(req[j])
        /\ (loop.returned /\ ~loop.failed) =>
              /\ req # <<>>
              /\ ~pages[PageOf(req[Len(req)])].has_more
              /\ loop.ret = AllResults(pages)

\* C8: the loop requests the first page without a cursor and each following
\* page with the cursor of the previous response, requests no page twice,
\* stops at the first response without has_more, returns the pages' results
\* in page order, and terminates.
C8_PagesThroughUpstream ==
    []PagingInOrder /\ <>(loop.returned)

\* A call that received three pages has returned.
C8_Witness ==
    /\ loop.returned
    /\ ~loop.failed
    /\ Len(loop.requests) = 3
    /\ Len(loop.ret) >= 3

====
